---- MODULE Spec2Model ----
(***************************************************************************)
(* librtraceroute (src/lib.rs): the constructor TraceRoute::new, the call  *)
(* run_trace_route, the IPv4 and IPv6 trace workers and the mpsc channel   *)
(* that carries HopFound values to the caller.                             *)
(***************************************************************************)
EXTENDS Integers, Sequences, FiniteSets, TLC

VARIABLES
    opts,       \* the arguments given to TraceRoute::new
    build,      \* "debug": arithmetic overflow panics; "release": it wraps;
                \* "unknown" until the first overflow shows which it is
    res,        \* what TraceRoute::new returned (Pending before the call)
    cfgAlive,   \* the TraceRoute value (and its results_sender) is still held
    rxAlive,    \* the Receiver<HopFound> is still held by the caller
    caller,     \* "ok", or "panicked" once a panic unwound the calling thread
    calls,      \* number of run_trace_route calls made so far
    runsLeft,   \* run_trace_route calls the caller will still make
    chan,       \* every HopFound the channel accepted, in order
    wk          \* the workers: position and loop state of each

vars == <<opts, build, res, cfgAlive, rxAlive, caller, calls, runsLeft, chan, wk>>

----------------------------------------------------------------------------
(* Bounds of the model *)

\* small TTL arguments are 0 .. TtlLow
TtlLow == 2
\* large TTL arguments are U8Max - TtlTop .. U8Max
TtlTop == 0
\* max_tries arguments are 0, 1 and TriesMax
TriesMax == 2
\* a worker is not followed further once the channel holds MaxEmit values
MaxEmit == 4
\* routers that may answer, besides the target
NumRouters == 1

(* Program constants *)
U8Max == 255
U16Max == 65535
DefaultMaxTtl == 30
DefaultBeginTtl == 1
DefaultMaxTries == 4
DefaultPort == 33434
DefaultTimeout == 200
DefaultSize == 64
MinSize == 12

----------------------------------------------------------------------------
(* Option<T>: None is the empty set, Some(v) is {v} *)

None == {}
Some(v) == {v}
IsSome(o) == o # {}
Unwrap(o) == CHOOSE v \in o : TRUE

Workers == {1, 2}

----------------------------------------------------------------------------
(* TraceRoute::new *)

Pending == [tag |-> "Pending"]
Err(msg) == [tag |-> "Err", msg |-> msg]
Ok(t) == [tag |-> "Ok", cfg |-> t]

\* the struct literal of lines 75-85
InitialTraceRoute(family) ==
    [ max_ttl   |-> DefaultMaxTtl,
      begin_ttl |-> DefaultBeginTtl,
      max_tries |-> DefaultMaxTries,
      port      |-> DefaultPort,
      timeout   |-> DefaultTimeout,
      family    |-> family,
      size      |-> DefaultSize,
      protocol  |-> "Udp" ]

BadMaxTtl(mt) == mt < 1

BadBeginTtlMut(bt, max_ttl) == bt > max_ttl + 1
BadBeginTtl(bt, max_ttl) == bt > max_ttl

BadSizeMut(s) == s <= MinSize
BadSize(s) == s < MinSize

BadTimeout(to) == to = 0

\* the checks and assignments of lines 87-127, in the order of the code
New(o) ==
    LET t0 == InitialTraceRoute(o.family) IN
    IF IsSome(o.max_ttl) /\ BadMaxTtl(Unwrap(o.max_ttl)) THEN Err("BAD MAX TTL")
    ELSE
    LET t1 == IF IsSome(o.max_ttl) THEN [t0 EXCEPT !.max_ttl = Unwrap(o.max_ttl)] ELSE t0 IN
    IF IsSome(o.begin_ttl) /\ BadBeginTtl(Unwrap(o.begin_ttl), t1.max_ttl) THEN Err("BAD START TTL")
    ELSE
    LET t2 == IF IsSome(o.begin_ttl) THEN [t1 EXCEPT !.begin_ttl = Unwrap(o.begin_ttl)] ELSE t1
        t3 == IF IsSome(o.max_tries) THEN [t2 EXCEPT !.max_tries = Unwrap(o.max_tries)] ELSE t2
        t4 == IF IsSome(o.port) THEN [t3 EXCEPT !.port = Unwrap(o.port)] ELSE t3
    IN
    IF IsSome(o.size) /\ BadSize(Unwrap(o.size)) THEN Err("BAD SIZE - MIN=12")
    ELSE
    LET t5 == IF IsSome(o.size) THEN [t4 EXCEPT !.size = Unwrap(o.size)] ELSE t4 IN
    IF IsSome(o.timeout) /\ BadTimeout(Unwrap(o.timeout)) THEN Err("BAD TIMEOUT")
    ELSE
    LET t6 == IF IsSome(o.timeout) THEN [t5 EXCEPT !.timeout = Unwrap(o.timeout)] ELSE t5
        t7 == IF IsSome(o.protocol) THEN [t6 EXCEPT !.protocol = Unwrap(o.protocol)] ELSE t6
    IN Ok(t7)

----------------------------------------------------------------------------
(* HopFound and the channel *)

HopFound(addr, hop_count, tries, is_last, time) ==
    [addr |-> addr, hop_count |-> hop_count, tries |-> tries,
     is_last |-> is_last, time |-> time]

\* Instant::now() - timer: some duration, whose value the model does not keep
Elapsed == Some("elapsed")

\* lines 367-373: the observation sent when i > end_ttl
MaxTtlHop(i, tries) == HopFound(None, i, tries, TRUE, None)

\* lines 408-414: the observation sent for a Time Exceeded answer
IntermediateHop(addr, i, tries) == HopFound(Some(addr), i, tries, FALSE, Elapsed)

\* lines 423-429 and 441-447: the observation sent when the destination answers
DestinationHop(addr, i, tries) == HopFound(Some(addr), i, tries, TRUE, Elapsed)

\* lines 472-478: the observation sent when the retries of a TTL are used up
TimeoutHopMut(i, tries) == HopFound(None, i, tries, FALSE, Elapsed)
TimeoutHop(i, tries) == HopFound(None, i, tries, FALSE, None)

\* the worker's position after the break that follows a terminal send
AfterLastMut == "top"
AfterLast == "done"

\* a worker holds its clone of results_sender until its thread ends
Running(w) == wk[w].pc \in {"start", "top", "wait"}

\* the senders of the channel that are still alive
SendersAlive == cfgAlive \/ \E w \in Workers : Running(w)

\* what Receiver::recv does for a consumer that has taken n values off the
\* channel: the next value, end-of-stream (RecvError), or it blocks
RecvOutcome(n) ==
    IF n < Len(chan) THEN "value"
    ELSE IF SendersAlive THEN "blocks" ELSE "disconnected"

----------------------------------------------------------------------------
(* The network: what one bounded wait of the listener can return *)

\* source addresses of the packets: the target and NumRouters routers
Addrs == 0 .. NumRouters
Target == CHOOSE a \in Addrs : \A b \in Addrs : a <= b

\* ICMP types the listener may deliver (8 and 128 stand for every other type)
IcmpTypesV4 == {0, 3, 8, 11}
IcmpTypesV6 == {0, 1, 3, 4, 129}

Outcomes(family) ==
    {[kind |-> "timeout"], [kind |-> "error"]}
    \cup {[kind |-> "packet", type |-> t, addr |-> a] :
            t \in (IF family = "v4" THEN IcmpTypesV4 ELSE IcmpTypesV6), a \in Addrs}

----------------------------------------------------------------------------
(* The trace workers: start_trace_route_on_v4 and start_trace_route_on_v6 *)

\* a probe handed to the transport: its TTL (hop limit) and, for UDP, its
\* destination port
Probe(ttl, dport) == [ttl |-> ttl, dport |-> dport]

\* besides the locals of the closure, a worker's record keeps the probe that
\* awaits its answer (probe), the number of probes sent at the current TTL
\* that were not answered from an already-seen source (sentHere) and whether
\* a bounded wait at the current TTL has returned a packet (heardHere)
NotSpawned ==
    [pc |-> "none", i |-> 0, tries |-> 0, has_changed |-> FALSE, seen |-> {},
     fault |-> "none", probe |-> None, sentHere |-> 0,
     heardHere |-> FALSE]

\* seen.get(&addr) is None
IsNewMut(addr, seen) == TRUE
IsNew(addr, seen) == addr \notin seen

\* the test that makes an answer an intermediate hop (lines 407 and 569)
IsIntermediate(family, type, addr) ==
    IF family = "v4" THEN type = 11 ELSE type = 0 /\ addr # Target

\* the test that makes an answer the destination (lines 422, 440, 585, 603)
IsDestination(family, protocol, type) ==
    IF family = "v4"
    THEN (IF protocol = "Udp" THEN type = 3 ELSE type = 0)
    ELSE (IF protocol = "Udp" THEN type = 4 ELSE type = 0)

\* a step of the loop body: the worker's fields, plus what it sends (emit)
\* and whether it goes on (go); a panic sets pc and fault and stops the step
Panic(r, why) == [r EXCEPT !.pc = "panic", !.fault = why, !.go = FALSE]

\* tx.send(hop).unwrap(): the value is queued, or the receiver is gone and
\* the unwrap panics
SendHopMut(r, hop) == [r EXCEPT !.emit = Append(@, hop)]
SendHop(r, hop) ==
    IF rxAlive THEN [r EXCEPT !.emit = Append(@, hop)]
    ELSE Panic(r, "send_unwrap")

\* the builds the program may be: the one an earlier overflow has shown, or
\* either one
Builds == IF build = "unknown" THEN {"debug", "release"} ELSE {build}

\* the builds to follow a step in, given the step as a debug build takes it:
\* a step that meets no overflow is the same in both
BuildsOf(r) == IF r.ovf THEN Builds ELSE {"debug"}

\* an arithmetic overflow in build b: a panic with overflow checks, the wrapped
\* value without them; ovf records that the step met one
Overflow(r, b, why, wrapped) ==
    IF b = "debug" THEN [Panic(r, why) EXCEPT !.ovf = TRUE]
    ELSE [wrapped EXCEPT !.ovf = TRUE]

\* i += 1 on a u8
IncTtl(r, b) ==
    IF r.i + 1 > U8Max
    THEN Overflow(r, b, "ttl_overflow", [r EXCEPT !.i = (r.i + 1) % (U8Max + 1)])
    ELSE [r EXCEPT !.i = r.i + 1]

\* tries += 1 on a u16
IncTries(r, b) ==
    IF r.tries + 1 > U16Max
    THEN Overflow(r, b, "tries_overflow", [r EXCEPT !.tries = (r.tries + 1) % (U16Max + 1)])
    ELSE [r EXCEPT !.tries = r.tries + 1]

\* the arm of an already-seen source: lines 460-464 (v4) and 623-625 (v6)
Duplicate(r, family, b) ==
    IF family = "v4"
    THEN (IF r.tries > 0 THEN [r EXCEPT !.tries = r.tries - 1] ELSE r)
    ELSE (IF r.tries - 1 < 0
          THEN Overflow(r, b, "tries_underflow",
                        [r EXCEPT !.tries = (r.tries + U16Max) % (U16Max + 1)])
          ELSE [r EXCEPT !.tries = r.tries - 1])

\* the arm of a new source: lines 405-459 (v4) and 567-622 (v6)
NewSource(r, c, o, b) ==
    LET r1 == [r EXCEPT !.seen = @ \cup {o.addr}] IN
    IF IsIntermediate(c.family, o.type, o.addr)
    THEN LET r2 == SendHop(r1, IntermediateHop(o.addr, r1.i, r1.tries)) IN
         IF ~r2.go THEN r2
         ELSE LET r3 == IncTtl([r2 EXCEPT !.has_changed = TRUE], b) IN
              IF ~r3.go THEN r3 ELSE [r3 EXCEPT !.tries = 0]
    ELSE IF IsDestination(c.family, c.protocol, o.type)
    THEN LET r2 == SendHop(r1, DestinationHop(o.addr, r1.i, r1.tries)) IN
         IF ~r2.go THEN r2 ELSE [r2 EXCEPT !.pc = AfterLast, !.go = FALSE]
    ELSE r1

\* the match on next_with_timeout: lines 402-469 and 564-630
Classify(r, c, o, b) ==
    IF o.kind = "packet"
    THEN (IF IsNew(o.addr, r.seen) THEN NewSource(r, c, o, b) ELSE Duplicate(r, c.family, b))
    ELSE [r EXCEPT !.has_changed = FALSE]

\* lines 470-483 and 631-644
Exhausted(r, c) == r.tries >= c.max_tries /\ ~r.has_changed

RetryTail(r, c, b) ==
    LET r1 == IncTries(r, b) IN
    IF ~r1.go THEN r1
    ELSE IF Exhausted(r1, c)
    THEN LET r2 == SendHop(r1, TimeoutHop(r1.i, r1.tries)) IN
         IF ~r2.go THEN r2
         ELSE LET r3 == IncTtl([r2 EXCEPT !.tries = 0], b) IN
              IF ~r3.go THEN r3 ELSE [r3 EXCEPT !.has_changed = FALSE]
    ELSE r1

\* the count of the probes of the current TTL once the iteration that began
\* in s and heard o has ended in r: none yet at a new TTL, one fewer when the
\* answer came from an already-seen source
SentAfter(s, o, r) ==
    IF r.i # s.i THEN 0
    ELSE IF o.kind = "packet" /\ ~IsNew(o.addr, s.seen) THEN s.sentHere - 1
    ELSE s.sentHere

\* whether a packet was heard at the current TTL, once that iteration has ended
HeardAfter(s, o, r) ==
    IF r.i # s.i THEN FALSE ELSE s.heardHere \/ o.kind = "packet"

\* one bounded wait and everything the iteration does after it
AfterWait(s, c, o, b) ==
    LET r0 == [pc |-> "top", i |-> s.i, tries |-> s.tries,
               has_changed |-> s.has_changed, seen |-> s.seen, fault |-> "none",
               probe |-> None, sentHere |-> s.sentHere, heardHere |-> s.heardHere,
               emit |-> <<>>, go |-> TRUE, ovf |-> FALSE]
        r1 == Classify(r0, c, o, b)
        r2 == IF ~r1.go THEN r1 ELSE RetryTail(r1, c, b)
    IN [r2 EXCEPT !.sentHere = SentAfter(s, o, r2), !.heardHere = HeardAfter(s, o, r2)]

\* the worker's fields kept in wk, out of a step's result
Fields(r) ==
    [pc |-> r.pc, i |-> r.i, tries |-> r.tries, has_changed |-> r.has_changed,
     seen |-> r.seen, fault |-> r.fault, probe |-> r.probe, sentHere |-> r.sentHere,
     heardHere |-> r.heardHere]

Tagged(w, hops) == [k \in 1..Len(hops) |-> [w |-> w, hop |-> hops[k]]]

----------------------------------------------------------------------------
(* Building and sending one probe: lines 377-401 and 539-563 *)

\* port + i as u16 (lines 383 and 545)
DestPort(port, i) == (port + i) % (U16Max + 1)

\* addr.to_string().parse::<Ipv4Addr>() succeeds (lines 181 and 226)
ParsesAsIpv4(family) == family = "v4"

\* the probe of this iteration is built and handed to the transport, or the
\* worker panics; iface4: get_ip_addr(true) finds an address; sendOk: send_to
\* returns Ok; the probe goes to port DestPort(c.port, s.i)
BuildAndSend(s, c, iface4, sendOk, b) ==
    LET r == [pc |-> "wait", i |-> s.i, tries |-> s.tries,
              has_changed |-> s.has_changed, seen |-> s.seen, fault |-> "none",
              probe |-> None, sentHere |-> s.sentHere, heardHere |-> s.heardHere,
              emit |-> <<>>, go |-> TRUE, ovf |-> FALSE]
        r1 == IF c.port + s.i > U16Max THEN Overflow(r, b, "port_overflow", r) ELSE r
    IN IF c.protocol = "Udp"
       THEN IF ~r1.go THEN r1
            ELSE IF ~iface4 THEN Panic(r1, "no_interface")
            ELSE IF ~ParsesAsIpv4(c.family) THEN Panic(r1, "parse_unwrap")
            ELSE IF ~sendOk THEN Panic(r1, "send_failed")
            ELSE [r1 EXCEPT !.probe = Some(Probe(s.i, Some(DestPort(c.port, s.i)))),
                            !.sentHere = @ + 1]
       ELSE IF ~sendOk THEN Panic(r, "send_failed")
            ELSE [r EXCEPT !.probe = Some(Probe(s.i, None)), !.sentHere = @ + 1]

\* the head of the loop: lines 366-376 and 528-538
AtLoopHead(s, c, iface4, sendOk, b) ==
    IF s.i > c.max_ttl
    THEN LET r0 == [pc |-> "top", i |-> s.i, tries |-> s.tries,
                    has_changed |-> s.has_changed, seen |-> s.seen,
                    fault |-> "none", probe |-> None, sentHere |-> s.sentHere, heardHere |-> s.heardHere,
                    emit |-> <<>>, go |-> TRUE, ovf |-> FALSE]
             r1 == SendHop(r0, MaxTtlHop(s.i, s.tries))
         IN IF ~r1.go THEN r1 ELSE [r1 EXCEPT !.pc = AfterLast, !.go = FALSE]
    ELSE BuildAndSend(s, c, iface4, sendOk, b)

----------------------------------------------------------------------------
(* Arguments of TraceRoute::new *)

LowTtls == 0 .. TtlLow
HighTtls == (U8Max - TtlTop) .. U8Max

OptionOf(S) == {None} \cup {Some(v) : v \in S}

\* begin_ttl once the default is applied
EffBegin(o) == IF IsSome(o.begin_ttl) THEN Unwrap(o.begin_ttl) ELSE DefaultBeginTtl

\* the arguments the traces are run with: at most TtlLow + 1 TTLs to probe,
\* and a port only where one is used (UDP), there with one TTL and one try
EngineOpts ==
    { o \in [ family    : {"v4", "v6"},
              max_ttl   : {Some(v) : v \in LowTtls \cup HighTtls},
              begin_ttl : {Some(v) : v \in LowTtls \cup HighTtls},
              max_tries : {Some(v) : v \in {0, 1, TriesMax}},
              timeout   : {None},
              port      : {None, Some(U16Max)},
              size      : {None},
              protocol  : {None, Some("Icmp")} ] :
        /\ Unwrap(o.max_ttl) - EffBegin(o) <= TtlLow
        /\ IsSome(o.port) =>
              o.protocol = None /\ o.max_ttl = o.begin_ttl /\ o.max_tries = Some(1) }

\* the arguments of the traces in which run_trace_route is called twice: one
\* TTL to probe, one try
TwoRunOpts ==
    { o \in EngineOpts :
        /\ o.family = "v4"
        /\ o.max_ttl = Some(1)
        /\ o.begin_ttl = Some(1)
        /\ o.max_tries = Some(1)
        /\ o.port = None }

\* the arguments the constructor is examined with
NewOpts ==
    [ family    : {"v4", "v6"},
      max_ttl   : OptionOf(LowTtls \cup {DefaultMaxTtl - 1, DefaultMaxTtl, DefaultMaxTtl + 1} \cup HighTtls),
      begin_ttl : OptionOf(LowTtls \cup {DefaultMaxTtl - 1, DefaultMaxTtl, DefaultMaxTtl + 1} \cup HighTtls),
      max_tries : OptionOf(0 .. 1),
      timeout   : OptionOf(0 .. 1),
      port      : OptionOf({0}),
      size      : OptionOf({MinSize - 1, MinSize, MinSize + 1}),
      protocol  : OptionOf({"Icmp", "Udp"}) ]

----------------------------------------------------------------------------
(* Actions *)

InitWith(optSet, runs) ==
    /\ opts \in optSet
    /\ build = "unknown"
    /\ res = Pending
    /\ cfgAlive = FALSE
    /\ rxAlive = FALSE
    /\ caller = "ok"
    /\ calls = 0
    /\ runsLeft = runs
    /\ chan = <<>>
    /\ wk = [w \in Workers |-> NotSpawned]

Init == InitWith(EngineOpts, 1)

InitNew == InitWith(NewOpts, 1)

\* TraceRoute::new(...): on Ok the caller holds the TraceRoute and the Receiver
CallNew ==
    /\ res = Pending
    /\ res' = New(opts)
    /\ cfgAlive' = (res'.tag = "Ok")
    /\ rxAlive' = (res'.tag = "Ok")
    /\ UNCHANGED <<opts, build, caller, calls, runsLeft, chan, wk>>

\* run_trace_route(&self) and the part of start_trace_route_on_v4/v6 that runs
\* in the calling thread (lines 337-349 and 499-511)
RunTraceRoute ==
    /\ res.tag = "Ok"
    /\ cfgAlive
    /\ caller = "ok"
    /\ runsLeft > 0
    /\ calls + 1 \in Workers
    /\ runsLeft' = runsLeft - 1
    /\ calls' = calls + 1
    /\ \E iface \in BOOLEAN, rxOpen \in BOOLEAN :
         IF ~iface
         THEN caller' = "panicked" /\ wk' = wk
         ELSE /\ caller' = caller
              /\ wk' = IF rxOpen
                       THEN [wk EXCEPT ![calls + 1] = [NotSpawned EXCEPT !.pc = "start"]]
                       ELSE wk
    /\ UNCHANGED <<opts, build, res, cfgAlive, rxAlive, chan>>

\* the spawned closure up to the loop: lines 350-364 and 512-526
WorkerStart(w) ==
    /\ wk[w].pc = "start"
    /\ \E txOpen \in BOOLEAN :
         wk' = [wk EXCEPT ![w] =
                  IF txOpen
                  THEN [@ EXCEPT !.pc = "top", !.i = res.cfg.begin_ttl,
                                 !.tries = 0, !.has_changed = FALSE]
                  ELSE [@ EXCEPT !.pc = "returned"]]
    /\ UNCHANGED <<opts, build, res, cfgAlive, rxAlive, caller, calls, runsLeft, chan>>

\* the top of one iteration: the terminal send, or the probe of this TTL
LoopHead(w) ==
    /\ wk[w].pc = "top"
    /\ Len(chan) < MaxEmit
    /\ \E iface4 \in BOOLEAN, sendOk \in BOOLEAN :
       LET d == AtLoopHead(wk[w], res.cfg, iface4, sendOk, "debug") IN
       \E b \in BuildsOf(d) :
         LET r == IF b = "debug" THEN d ELSE AtLoopHead(wk[w], res.cfg, iface4, sendOk, b) IN
         /\ wk' = [wk EXCEPT ![w] = Fields(r)]
         /\ chan' = chan \o Tagged(w, r.emit)
         /\ build' = IF r.ovf THEN b ELSE build
    /\ UNCHANGED <<opts, res, cfgAlive, rxAlive, caller, calls, runsLeft>>

\* next_with_timeout returns, and the rest of the iteration runs
Wait(w) ==
    /\ wk[w].pc = "wait"
    /\ Len(chan) < MaxEmit
    /\ \E o \in Outcomes(res.cfg.family) :
       LET d == AfterWait(wk[w], res.cfg, o, "debug") IN
       \E b \in BuildsOf(d) :
         LET r == IF b = "debug" THEN d ELSE AfterWait(wk[w], res.cfg, o, b) IN
         /\ wk' = [wk EXCEPT ![w] = Fields(r)]
         /\ chan' = chan \o Tagged(w, r.emit)
         /\ build' = IF r.ovf THEN b ELSE build
    /\ UNCHANGED <<opts, res, cfgAlive, rxAlive, caller, calls, runsLeft>>

\* the caller drops the Receiver
DropReceiver ==
    /\ rxAlive
    /\ rxAlive' = FALSE
    /\ UNCHANGED <<opts, build, res, cfgAlive, caller, calls, runsLeft, chan, wk>>

\* the caller drops the TraceRoute value, and with it the original sender;
\* the drop is followed before the run and once the workers have ended: a
\* running worker owns copies of the fields and a clone of the sender (lines
\* 131-158), so a drop during its run changes none of its steps
DropTraceRoute ==
    /\ cfgAlive
    /\ caller = "ok"
    /\ \A w \in Workers : ~Running(w)
    /\ cfgAlive' = FALSE
    /\ UNCHANGED <<opts, build, res, rxAlive, caller, calls, runsLeft, chan, wk>>

WorkerNext == \E w \in Workers : WorkerStart(w) \/ LoopHead(w) \/ Wait(w)

Next ==
    \/ CallNew
    \/ RunTraceRoute
    \/ \E w \in Workers : WorkerStart(w)
    \/ \E w \in Workers : LoopHead(w)
    \/ \E w \in Workers : Wait(w)
    \/ DropReceiver
    \/ DropTraceRoute

Spec == Init /\ [][Next]_vars

NextNew == CallNew \/ RunTraceRoute

SpecNew == InitNew /\ [][NextNew]_vars

\* the caller calls run_trace_route twice on the TraceRoute it was given
InitTwoRuns == InitWith(TwoRunOpts, 2)

SpecTwoRuns == InitTwoRuns /\ [][Next]_vars

\* the threads are scheduled and every bounded wait returns
FairSpec == Spec /\ WF_vars(WorkerNext)

----------------------------------------------------------------------------
(* What the claims speak about *)

\* the observations worker w put on the channel, in order
Out(w) ==
    LET mine == SelectSeq(chan, LAMBDA m : m.w = w)
    IN [k \in 1..Len(mine) |-> mine[k].hop]

Stopped(w) == wk[w].pc \in {"done", "panic", "returned"}

\* an observation that is not terminal and carries a responder address
Responder(h) == ~h.is_last /\ h.addr # None

EffMax(o) == IF IsSome(o.max_ttl) THEN Unwrap(o.max_ttl) ELSE DefaultMaxTtl

\* the constructor returned a TraceRoute that meets the data model's
\* begin_ttl >= 1 and max_tries >= 1
WellFormed == res.tag = "Ok" /\ res.cfg.begin_ttl >= 1 /\ res.cfg.max_tries >= 1

----------------------------------------------------------------------------
(* C1 *)

\* C1: for each worker, an observation with is_last = true is the last one the
\* worker has emitted, and a worker that left its loop through a break has
\* emitted one (so exactly one, and nothing after it).
C1_LastIsFinal ==
    \A w \in Workers :
        LET o == Out(w) IN
        /\ \A k \in 1..Len(o) : o[k].is_last => k = Len(o)
        /\ wk[w].pc = "done" => Len(o) >= 1 /\ o[Len(o)].is_last

\* a worker that emitted non-terminal observations, then its terminal one, and stopped
C1_Witness ==
    \E w \in Workers :
        /\ wk[w].pc = "done"
        /\ Len(Out(w)) >= 3
        /\ Out(w)[Len(Out(w))].is_last
        /\ ~Out(w)[1].is_last

----------------------------------------------------------------------------
(* C2 *)

\* C2: the hop_count values a worker emits never decrease, and advancing the
\* 8-bit counter i never overflows it (stated for the configurations that meet
\* the data model).
C2_HopCountMonotone ==
    \A w \in Workers :
      WellFormed =>
        /\ \A j, k \in 1..Len(Out(w)) : j < k => Out(w)[j].hop_count <= Out(w)[k].hop_count
        /\ wk[w].fault # "ttl_overflow"

----------------------------------------------------------------------------
(* C3 *)

\* C3: two non-terminal observations of one worker that carry a responder
\* address never carry the same address.
C3_RespondersDistinct ==
    \A w \in Workers :
        \A j, k \in 1..Len(Out(w)) :
            (j < k /\ Responder(Out(w)[j]) /\ Responder(Out(w)[k]))
                => Out(w)[j].addr # Out(w)[k].addr

\* two responders were reported, and the worker went on probing after them
\* with both in seen
C3_Witness ==
    \E w \in Workers :
        /\ Cardinality({k \in 1..Len(Out(w)) : Responder(Out(w)[k])}) >= 2
        /\ wk[w].pc = "wait"
        /\ Cardinality(wk[w].seen) >= 2

----------------------------------------------------------------------------
(* C4 *)

\* C4: every observation on the channel has addr present exactly when time is
\* present.
C4_AddrIffTime ==
    \A k \in 1..Len(chan) : (chan[k].hop.addr # None) <=> (chan[k].hop.time # None)

\* the channel holds an answered observation, a timed-out one and the
\* max-TTL terminal one
C4_Witness ==
    /\ \E k \in 1..Len(chan) : chan[k].hop.addr # None /\ chan[k].hop.time # None
    /\ \E k \in 1..Len(chan) : chan[k].hop.addr = None /\ ~chan[k].hop.is_last
    /\ \E k \in 1..Len(chan) : chan[k].hop.addr = None /\ chan[k].hop.is_last

----------------------------------------------------------------------------
(* C5 *)

\* C5: a worker that has entered its loop, with a configuration that meets the
\* data model, eventually stops (or reaches the point where it is no longer
\* followed). Panics are counted as stops, so that only a worker that runs
\* forever refutes the statement.
C5_Terminates ==
    \A w \in Workers :
        (WellFormed /\ wk[w].pc = "top")
            ~> (wk[w].pc \in {"done", "panic"} \/ Len(chan) >= MaxEmit)

----------------------------------------------------------------------------
(* C6 *)

\* C6: once a worker has emitted its terminal observation and stopped, a
\* consumer that has received everything gets end-of-stream from its next
\* recv, while the caller still holds the TraceRoute value.
C6_StreamCloses ==
    \A w \in Workers :
        (wk[w].pc = "done" /\ rxAlive /\ cfgAlive)
            => RecvOutcome(Len(chan)) = "disconnected"

----------------------------------------------------------------------------
(* C7 *)

\* the constructor as the claim describes it: the first failing check of
\* max_ttl < 1, begin_ttl > max_ttl (30 when absent), size < 12, timeout = 0,
\* and otherwise every field the supplied value or its default
C7_Reference(o) ==
    LET or(x, d) == IF x = {} THEN d ELSE CHOOSE v \in x : TRUE IN
    IF o.max_ttl # {} /\ or(o.max_ttl, 30) < 1
    THEN [tag |-> "Err", msg |-> "BAD MAX TTL"]
    ELSE IF o.begin_ttl # {} /\ or(o.begin_ttl, 1) > or(o.max_ttl, 30)
    THEN [tag |-> "Err", msg |-> "BAD START TTL"]
    ELSE IF o.size # {} /\ or(o.size, 64) < 12
    THEN [tag |-> "Err", msg |-> "BAD SIZE - MIN=12"]
    ELSE IF o.timeout # {} /\ or(o.timeout, 200) = 0
    THEN [tag |-> "Err", msg |-> "BAD TIMEOUT"]
    ELSE [tag |-> "Ok",
          cfg |-> [ max_ttl   |-> or(o.max_ttl, 30),
                    begin_ttl |-> or(o.begin_ttl, 1),
                    max_tries |-> or(o.max_tries, 4),
                    timeout   |-> or(o.timeout, 200),
                    port      |-> or(o.port, 33434),
                    size      |-> or(o.size, 64),
                    protocol  |-> or(o.protocol, "Udp"),
                    family    |-> o.family ]]

\* C7: what TraceRoute::new returned is what the reference gives for the same
\* arguments.
C7_NewAgreesWithReference == res # Pending => res = C7_Reference(opts)

\* a call that fails two checks at once and returned the error of the first
C7_Witness ==
    /\ res = Err("BAD SIZE - MIN=12")
    /\ opts.timeout = Some(0)
    /\ opts.max_ttl = None
    /\ opts.begin_ttl = Some(DefaultMaxTtl)

----------------------------------------------------------------------------
(* C8 *)

\* C8, as stated: whenever the effective begin_ttl exceeds the effective
\* max_ttl, the constructor returned the BadBeginTtl error and no worker exists.
C8_AsStated ==
    (res # Pending /\ EffBegin(opts) > EffMax(opts))
        => res = Err("BAD START TTL") /\ \A w \in Workers : wk[w].pc = "none"

\* C8, amended: whenever the effective begin_ttl exceeds the effective max_ttl,
\* the constructor failed and no worker exists; the error is BadBeginTtl unless
\* max_ttl = 0 was supplied, where the max_ttl check fails first with BadMaxTtl.
C8_BeginAboveMaxRejected ==
    (res # Pending /\ EffBegin(opts) > EffMax(opts))
        => /\ res = (IF EffMax(opts) < 1 THEN Err("BAD MAX TTL") ELSE Err("BAD START TTL"))
           /\ \A w \in Workers : wk[w].pc = "none"

\* begin_ttl one above the default max_ttl was rejected
C8_Witness ==
    /\ res = Err("BAD START TTL")
    /\ opts.max_ttl = None
    /\ opts.begin_ttl = Some(DefaultMaxTtl + 1)
    /\ \A w \in Workers : wk[w].pc = "none"

----------------------------------------------------------------------------
(* C9 *)

\* C9: a TraceRoute returned by the constructor has 1 <= begin_ttl <= max_ttl,
\* max_tries >= 1, timeout >= 1 and size >= 12.
C9_ConfigConstraints ==
    res.tag = "Ok" =>
        /\ 1 <= res.cfg.begin_ttl
        /\ res.cfg.begin_ttl <= res.cfg.max_ttl
        /\ res.cfg.max_tries >= 1
        /\ res.cfg.timeout >= 1
        /\ res.cfg.size >= 12

----------------------------------------------------------------------------
(* C10 *)

IsPrefix(a, b) == Len(a) <= Len(b) /\ \A k \in 1..Len(a) : a[k] = b[k]

\* addr, hop_count and is_last of the observations of a sequence
Shape(hops) ==
    [k \in 1..Len(hops) |->
        [addr |-> hops[k].addr, hop_count |-> hops[k].hop_count, is_last |-> hops[k].is_last]]

\* the observations the claim expects of a trace that never hears anything
C10_Expected(c) ==
    [k \in 1..(c.max_ttl - c.begin_ttl + 2) |->
        IF k <= c.max_ttl - c.begin_ttl + 1
        THEN [addr |-> None, hop_count |-> c.begin_ttl + k - 1, is_last |-> FALSE]
        ELSE [addr |-> None, hop_count |-> c.max_ttl + 1, is_last |-> TRUE]]

\* C10: a worker in its loop that has received no packet, whose sends all
\* succeeded, with a local interface and a live receiver, has emitted a prefix
\* of: one addr-absent observation per TTL begin_ttl..max_ttl, then the
\* terminal one with hop_count max_ttl + 1; and once it has stopped it has
\* emitted all of it (stated for an IPv4 target, a configuration that meets
\* the data model and a port with port + max_ttl <= 65535).
C10_SilentTrace ==
    \A w \in Workers :
        (/\ WellFormed
         /\ res.cfg.family = "v4"
         /\ res.cfg.port + res.cfg.max_ttl <= U16Max
         /\ wk[w].pc \in {"top", "wait", "done", "panic"}
         /\ wk[w].seen = {}
         /\ wk[w].fault \notin {"send_failed", "send_unwrap", "no_interface"})
        => /\ IsPrefix(Shape(Out(w)), C10_Expected(res.cfg))
           /\ wk[w].pc \in {"done", "panic"} => Shape(Out(w)) = C10_Expected(res.cfg)

----------------------------------------------------------------------------
(* C11 *)

Last(q) == q[Len(q)]

\* worker w has reported router a for the TTL before the current one, has
\* heard no other source, and no bounded wait has timed out since
SameRouterAgain(w, a) ==
    /\ wk[w].pc = "top"
    /\ wk[w].seen = {a}
    /\ wk[w].has_changed
    /\ Len(Out(w)) >= 1
    /\ Responder(Last(Out(w)))
    /\ Last(Out(w)).addr = Some(a)
    /\ Last(Out(w)).hop_count = wk[w].i - 1

\* C11: when router a was reported for TTL t and the engine is at TTL t + 1,
\* no second observation carries a, and the engine eventually gets past that
\* state: it advances by retry exhaustion (which leaves has_changed false) or
\* stops, unless something else than an answer of a was heard (a timeout
\* clears has_changed, another source enlarges seen). If a answers every
\* probe of TTL t + 1, only the advance is left.
C11_DuplicateThenExhaustion ==
    /\ [](\A w \in Workers : \A a \in Addrs :
            Cardinality({k \in 1..Len(Out(w)) : Out(w)[k].addr = Some(a)}) <= 1)
    /\ \A w \in Workers : \A a \in Addrs :
          (WellFormed /\ SameRouterAgain(w, a))
              ~> (\/ wk[w].pc \notin {"top", "wait"}
                  \/ wk[w].seen # {a}
                  \/ ~wk[w].has_changed
                  \/ Len(chan) >= MaxEmit)

----------------------------------------------------------------------------
(* C12 *)

\* the packet the listener delivers when the destination answers an Echo
\* Request
EchoReply == [kind |-> "packet", type |-> 0, addr |-> Target]

\* C12: on IPv4 in ICMP mode, at every bounded wait (so with i <= max_ttl)
\* and with the receiver alive, an Echo Reply from the destination makes the
\* iteration emit the terminal observation {addr: destination, hop_count: i,
\* is_last: true} and leave the loop, whatever was received before.
C12_EchoReplyStops ==
    \A w \in Workers :
        (/\ WellFormed
         /\ res.cfg.family = "v4"
         /\ res.cfg.protocol = "Icmp"
         /\ wk[w].pc = "wait"
         /\ rxAlive)
        => \A b \in Builds :
             LET r == AfterWait(wk[w], res.cfg, EchoReply, b) IN
             /\ r.pc = "done"
             /\ r.emit = <<DestinationHop(Target, wk[w].i, wk[w].tries)>>

----------------------------------------------------------------------------
(* C13 *)

\* C13: once the Receiver is dropped, no step puts a value on the channel; a
\* worker in its loop never gets past an emission (it neither advances i nor
\* leaves the loop through a break, the only things that follow a send); a
\* worker that finds i > max_ttl stops on the failed terminal send; and a
\* worker stopped by a failed send takes no further step (so sends no probe).
C13_DropStopsWorker ==
    [][ ~rxAlive =>
          /\ chan' = chan
          /\ \A w \in Workers :
                /\ wk[w].pc \in {"top", "wait"} =>
                      /\ wk'[w].i = wk[w].i
                      /\ wk'[w].pc \in {"top", "wait", "panic"}
                /\ (wk[w].pc = "top" /\ wk[w].i > res.cfg.max_ttl /\ wk'[w] # wk[w]) =>
                      wk'[w].pc = "panic" /\ wk'[w].fault = "send_unwrap"
                /\ wk[w].fault = "send_unwrap" => wk'[w] = wk[w] ]_vars

\* a worker that had emitted observations was stopped, in the middle of its
\* TTL range, by the send that followed the drop of the Receiver
C13_Witness ==
    \E w \in Workers :
        /\ ~rxAlive
        /\ wk[w].pc = "panic"
        /\ wk[w].fault = "send_unwrap"
        /\ Len(Out(w)) >= 1
        /\ wk[w].i <= res.cfg.max_ttl

----------------------------------------------------------------------------
(* C14 *)

\* C14: whatever number of run_trace_route calls were made on the TraceRoute,
\* at most one worker has put observations on its channel, and the channel
\* holds at most one observation with is_last = true.
C14_ConsumedOnce ==
    /\ Cardinality({w \in Workers : Len(Out(w)) >= 1}) <= 1
    /\ Cardinality({k \in 1..Len(chan) : chan[k].hop.is_last}) <= 1

----------------------------------------------------------------------------
(* C15 *)

\* C15: in UDP mode the computation of the destination port never overflows,
\* and every probe handed to the transport goes to port + i, a value of
\* 0 .. 65535, where i is the TTL of the probe.
C15_DestPortIsSum ==
    \A w \in Workers :
        (res.tag = "Ok" /\ res.cfg.protocol = "Udp") =>
            /\ wk[w].fault # "port_overflow"
            /\ \A p \in wk[w].probe :
                  /\ p.dport = Some(res.cfg.port + p.ttl)
                  /\ res.cfg.port + p.ttl <= U16Max

----------------------------------------------------------------------------
(* C16 *)

\* C16: every call of run_trace_route made so far has returned normally (no
\* panic has unwound the calling thread) and has spawned a worker.
C16_RunAlwaysSpawns ==
    /\ caller = "ok"
    /\ Cardinality({w \in Workers : wk[w].pc # "none"}) = calls

----------------------------------------------------------------------------
(* C17 and C18: the classification of a packet from a new source *)

\* the packets the listener may deliver from a source worker w has not seen
NewPackets(w) ==
    {o \in Outcomes(res.cfg.family) : o.kind = "packet" /\ o.addr \notin wk[w].seen}

\* the iteration ends with exactly one observation emitted, for address a at
\* the TTL the iteration began with
EmittedFor(r, s, a, is_last) ==
    /\ Len(r.emit) = 1
    /\ r.emit[1].addr = Some(a)
    /\ r.emit[1].hop_count = s.i
    /\ r.emit[1].is_last = is_last

\* the result r of an iteration that began in s and heard an intermediate hop
AsIntermediate(r, s, a) ==
    /\ EmittedFor(r, s, a, FALSE)
    /\ r.pc = "top"
    /\ r.has_changed
    /\ r.i = s.i + 1
    /\ r.tries = 1
    /\ r.seen = s.seen \cup {a}

\* the result r of an iteration that began in s and heard the destination
AsDestination(r, s, a) ==
    /\ EmittedFor(r, s, a, TRUE)
    /\ r.pc = "done"

\* the result r of an iteration that began in s and heard any other type:
\* unless the retry test that follows the increment holds (step 5 of the
\* iteration, which then emits and advances), nothing is emitted and only
\* tries changes
AsOther(r, s, c, a) ==
    /\ r.seen = s.seen \cup {a}
    /\ ~(s.tries + 1 >= c.max_tries /\ ~s.has_changed) =>
          /\ r.emit = <<>>
          /\ r.pc = "top"
          /\ r.i = s.i
          /\ r.has_changed = s.has_changed
          /\ r.tries = s.tries + 1

\* C17: in the IPv4 engine, with the receiver alive, an iteration that hears
\* a packet from a new source ends as the claim says: type 11 is an
\* intermediate hop, type 3 in UDP mode and type 0 in ICMP mode are the
\* destination, every other type is no response.
C17_ClassifiesV4 ==
    \A w \in Workers :
        (WellFormed /\ res.cfg.family = "v4" /\ wk[w].pc = "wait" /\ rxAlive) =>
            \A o \in NewPackets(w) : \A b \in Builds :
                LET r == AfterWait(wk[w], res.cfg, o, b) IN
                IF o.type = 11 THEN AsIntermediate(r, wk[w], o.addr)
                ELSE IF \/ res.cfg.protocol = "Udp" /\ o.type = 3
                        \/ res.cfg.protocol = "Icmp" /\ o.type = 0
                     THEN AsDestination(r, wk[w], o.addr)
                ELSE AsOther(r, wk[w], res.cfg, o.addr)

\* C18: in the IPv6 engine, with the receiver alive, an iteration that hears
\* a packet from a new source ends as the claim says: type 3 is an
\* intermediate hop, types 1 and 4 in UDP mode and type 129 in ICMP mode are
\* the destination, every other type is no response.
C18_ClassifiesV6 ==
    \A w \in Workers :
        (WellFormed /\ res.cfg.family = "v6" /\ wk[w].pc = "wait" /\ rxAlive) =>
            \A o \in NewPackets(w) : \A b \in Builds :
                LET r == AfterWait(wk[w], res.cfg, o, b) IN
                IF o.type = 3 THEN AsIntermediate(r, wk[w], o.addr)
                ELSE IF \/ res.cfg.protocol = "Udp" /\ o.type \in {1, 4}
                        \/ res.cfg.protocol = "Icmp" /\ o.type = 129
                     THEN AsDestination(r, wk[w], o.addr)
                ELSE AsOther(r, wk[w], res.cfg, o.addr)

----------------------------------------------------------------------------
(* C19 and C20: a packet from an already-seen source *)

\* the packets the listener may deliver from a source worker w has seen
SeenPackets(w) ==
    {o \in Outcomes(res.cfg.family) : o.kind = "packet" /\ o.addr \in wk[w].seen}

\* the locals of worker w as the loop body starts to work on them
Locals(w) ==
    [pc |-> "top", i |-> wk[w].i, tries |-> wk[w].tries,
     has_changed |-> wk[w].has_changed, seen |-> wk[w].seen, fault |-> "none",
     probe |-> None, sentHere |-> wk[w].sentHere, heardHere |-> wk[w].heardHere,
     emit |-> <<>>, go |-> TRUE, ovf |-> FALSE]

\* C19: a worker that waits with tries = 0 and has seen some source takes the
\* already-seen arm without a decrement: the arm leaves tries at 0 and meets
\* no underflow, whichever build the program is.
C19_NoDecrementAtZero ==
    \A w \in Workers :
        (WellFormed /\ wk[w].pc = "wait" /\ wk[w].tries = 0 /\ wk[w].seen # {}) =>
            \A b \in Builds :
                LET d == Duplicate(Locals(w), res.cfg.family, b) IN
                /\ d.tries = 0
                /\ d.fault = "none"
                /\ ~d.ovf

\* C20: an iteration that hears a packet from an already-seen source leaves
\* the worker as it found it: same i, has_changed, seen and tries, nothing
\* emitted, and the loop goes on.
C20_DuplicateIsFree ==
    \A w \in Workers :
        (WellFormed /\ wk[w].pc = "wait") =>
            \A o \in SeenPackets(w) : \A b \in Builds :
                LET r == AfterWait(wk[w], res.cfg, o, b) IN
                /\ r.pc = "top"
                /\ r.emit = <<>>
                /\ r.i = wk[w].i
                /\ r.has_changed = wk[w].has_changed
                /\ r.seen = wk[w].seen
                /\ r.tries = wk[w].tries

----------------------------------------------------------------------------
(* C21 *)

\* the observations of worker w cover consecutive TTLs from begin_ttl on
ConsecutiveFromBegin(w) ==
    LET o == Out(w) IN
    /\ Len(o) >= 1 => o[1].hop_count = res.cfg.begin_ttl
    /\ \A k \in 2..Len(o) : o[k].hop_count = o[k - 1].hop_count + 1

\* C21: with a configuration that meets the data model, every step leaves
\* each worker's observations consecutive from begin_ttl (one per TTL); a
\* step of the loop that changes i has just emitted one observation, for the
\* TTL it leaves; and a non-terminal observation is emitted only while a
\* probe with its TTL awaits its answer.
C21_OneObservationPerTtl ==
    [][ \A w \in Workers :
          WellFormed =>
            /\ ConsecutiveFromBegin(w)'
            /\ (wk[w].pc \in {"top", "wait"} /\ wk'[w].i # wk[w].i) =>
                  /\ Len(Out(w)') = Len(Out(w)) + 1
                  /\ Last(Out(w)').hop_count = wk[w].i
            /\ (Len(Out(w)') > Len(Out(w)) /\ ~Last(Out(w)').is_last) =>
                  \E p \in wk[w].probe : p.ttl = Last(Out(w)').hop_count ]_vars

----------------------------------------------------------------------------
(* C22 *)

\* the bounded wait returns nothing
TimedOut == [kind |-> "timeout"]

\* C22: with a configuration that meets the data model, a worker about to
\* send a probe has tries equal to the number of probes it sent at the current
\* TTL that were not answered from an already-seen source; and at a TTL where
\* no wait has returned a packet, the wait that times out is followed by the
\* addr-absent observation exactly when max_tries probes were sent there, and
\* that observation carries tries = max_tries.
C22_TriesCountsProbes ==
    \A w \in Workers :
        WellFormed =>
            /\ (wk[w].pc = "top" /\ wk[w].i <= res.cfg.max_ttl) =>
                  wk[w].tries = wk[w].sentHere
            /\ (wk[w].pc = "wait" /\ ~wk[w].heardHere /\ rxAlive) =>
                  \A b \in Builds :
                      LET r == AfterWait(wk[w], res.cfg, TimedOut, b) IN
                      /\ wk[w].sentHere <= res.cfg.max_tries
                      /\ (r.emit # <<>>) <=> (wk[w].sentHere = res.cfg.max_tries)
                      /\ r.emit # <<>> =>
                            r.emit = <<TimeoutHop(wk[w].i, res.cfg.max_tries)>>

----------------------------------------------------------------------------
(* C23 *)

\* the worker has handed a probe with forwarding limit i to the sender and
\* is at the bounded wait
ProbeHandedOver(r, i) ==
    /\ r.pc = "wait"
    /\ r.fault = "none"
    /\ \E p \in r.probe : p.ttl = i

\* C23: with a configuration that meets the data model, for either family
\* and either protocol, a worker at the head of an iteration with
\* i <= max_ttl that finds a local interface and whose transport accepts the
\* datagram hands a probe with forwarding limit i to the sender and proceeds
\* to the bounded wait: building the probe does not abort the worker.
C23_OnlySendErrorIsFatal ==
    \A w \in Workers :
        (WellFormed /\ wk[w].pc = "top" /\ wk[w].i <= res.cfg.max_ttl) =>
            \A b \in Builds :
                ProbeHandedOver(AtLoopHead(wk[w], res.cfg, TRUE, TRUE, b), wk[w].i)

====
